---- MODULE Spec2Model ----
(***************************************************************************)
(* Model of src/app.py: the column-letter resolver excel_col_to_index and  *)
(* the /analyze handler (column-spec parsing, pandas.read_excel with       *)
(* usecols, per-label frequency counting).                                 *)
(*                                                                         *)
(* Text is modelled as a sequence of code points (ord values), so that     *)
(* ord(), upper(), strip() and the regular-expression split are computed   *)
(* as the code computes them: "A" is <<65>>, "a b" is <<97, 32, 98>>.      *)
(* upper() and the whitespace of strip() and \s cover all of Unicode.     *)
(***************************************************************************)
EXTENDS Integers, Sequences, FiniteSets, TLC

VARIABLES
    pc,           \* position of the running call
    col_letter,   \* excel_col_to_index: the argument
    ret,          \* excel_col_to_index: what the call produced
    seen,         \* label -> index for every label converted so far
    file,         \* analyze: request.files["file"]
    columns_raw,  \* analyze: request.form["columns"]
    col_letters,  \* analyze: the tokens of line 82 (result keys)
    df,           \* analyze: the DataFrame read_excel returned
    result,       \* analyze: the result dict (keys in insertion order)
    i,            \* analyze: the loop index of line 86
    response      \* analyze: the (body, status) returned

vars == <<pc, col_letter, ret, seen, file, columns_raw, col_letters, df,
          result, i, response>>

-----------------------------------------------------------------------------
(* Bounds of the model *)

\* longest argument given to excel_col_to_index
MaxLen == 2
\* highest rank (in the natural ordering of labels) walked for the ordering
MaxIndex == 720
\* longest columns string enumerated exhaustively
MaxSpecLen == 3
\* most data rows of an enumerated sheet
MaxRows == 2

-----------------------------------------------------------------------------
(* Characters *)

\* every string over the alphabet of length at most n
StringsUpTo(alphabet, n) == UNION {[1..m -> alphabet] : m \in 0..n}

\* ord('A'), line 29
OrdA == 65
\* ord('Z'), the upper end of the comparison on line 27
OrdZ == 90

\* the whitespace of str.strip() and of \s in a str pattern: \t \n \v \f \r,
\* U+001C..U+001F, space, U+0085, U+00A0, U+1680, U+2000..U+200A, U+2028,
\* U+2029, U+202F, U+205F, U+3000
IsSpace(ch) ==
    \/ ch >= 9 /\ ch <= 13
    \/ ch >= 28 /\ ch <= 32
    \/ ch \in {133, 160, 5760, 8232, 8233, 8239, 8287, 12288}
    \/ ch >= 8192 /\ ch <= 8202

\* str.upper outside ASCII, one-character results: every <<lo, hi, step, d>>
\* says that the code points lo, lo + step, ..., hi upper-case to themselves
\* plus d (the case mappings of the Unicode 14 character database)
UpperRanges == {
    <<181, 181, 1, 743>>, <<224, 246, 1, -32>>, <<248, 254, 1, -32>>,
    <<255, 255, 1, 121>>, <<257, 303, 2, -1>>, <<305, 305, 1, -232>>,
    <<307, 311, 2, -1>>, <<314, 328, 2, -1>>, <<331, 375, 2, -1>>,
    <<378, 382, 2, -1>>, <<383, 383, 1, -300>>, <<384, 384, 1, 195>>,
    <<387, 389, 2, -1>>, <<392, 392, 1, -1>>, <<396, 396, 1, -1>>,
    <<402, 402, 1, -1>>, <<405, 405, 1, 97>>, <<409, 409, 1, -1>>,
    <<410, 410, 1, 163>>, <<414, 414, 1, 130>>, <<417, 421, 2, -1>>,
    <<424, 424, 1, -1>>, <<429, 429, 1, -1>>, <<432, 432, 1, -1>>,
    <<436, 438, 2, -1>>, <<441, 441, 1, -1>>, <<445, 445, 1, -1>>,
    <<447, 447, 1, 56>>, <<453, 453, 1, -1>>, <<454, 454, 1, -2>>,
    <<456, 456, 1, -1>>, <<457, 457, 1, -2>>, <<459, 459, 1, -1>>,
    <<460, 460, 1, -2>>, <<462, 476, 2, -1>>, <<477, 477, 1, -79>>,
    <<479, 495, 2, -1>>, <<498, 498, 1, -1>>, <<499, 499, 1, -2>>,
    <<501, 501, 1, -1>>, <<505, 543, 2, -1>>, <<547, 563, 2, -1>>,
    <<572, 572, 1, -1>>, <<575, 576, 1, 10815>>, <<578, 578, 1, -1>>,
    <<583, 591, 2, -1>>, <<592, 592, 1, 10783>>, <<593, 593, 1, 10780>>,
    <<594, 594, 1, 10782>>, <<595, 595, 1, -210>>, <<596, 596, 1, -206>>,
    <<598, 599, 1, -205>>, <<601, 601, 1, -202>>, <<603, 603, 1, -203>>,
    <<604, 604, 1, 42319>>, <<608, 608, 1, -205>>, <<609, 609, 1, 42315>>,
    <<611, 611, 1, -207>>, <<613, 613, 1, 42280>>, <<614, 614, 1, 42308>>,
    <<616, 616, 1, -209>>, <<617, 617, 1, -211>>, <<618, 618, 1, 42308>>,
    <<619, 619, 1, 10743>>, <<620, 620, 1, 42305>>, <<623, 623, 1, -211>>,
    <<625, 625, 1, 10749>>, <<626, 626, 1, -213>>, <<629, 629, 1, -214>>,
    <<637, 637, 1, 10727>>, <<640, 640, 1, -218>>, <<642, 642, 1, 42307>>,
    <<643, 643, 1, -218>>, <<647, 647, 1, 42282>>, <<648, 648, 1, -218>>,
    <<649, 649, 1, -69>>, <<650, 651, 1, -217>>, <<652, 652, 1, -71>>,
    <<658, 658, 1, -219>>, <<669, 669, 1, 42261>>, <<670, 670, 1, 42258>>,
    <<837, 837, 1, 84>>, <<881, 883, 2, -1>>, <<887, 887, 1, -1>>,
    <<891, 893, 1, 130>>, <<940, 940, 1, -38>>, <<941, 943, 1, -37>>,
    <<945, 961, 1, -32>>, <<962, 962, 1, -31>>, <<963, 971, 1, -32>>,
    <<972, 972, 1, -64>>, <<973, 974, 1, -63>>, <<976, 976, 1, -62>>,
    <<977, 977, 1, -57>>, <<981, 981, 1, -47>>, <<982, 982, 1, -54>>,
    <<983, 983, 1, -8>>, <<985, 1007, 2, -1>>, <<1008, 1008, 1, -86>>,
    <<1009, 1009, 1, -80>>, <<1010, 1010, 1, 7>>, <<1011, 1011, 1, -116>>,
    <<1013, 1013, 1, -96>>, <<1016, 1016, 1, -1>>, <<1019, 1019, 1, -1>>,
    <<1072, 1103, 1, -32>>, <<1104, 1119, 1, -80>>, <<1121, 1153, 2, -1>>,
    <<1163, 1215, 2, -1>>, <<1218, 1230, 2, -1>>, <<1231, 1231, 1, -15>>,
    <<1233, 1327, 2, -1>>, <<1377, 1414, 1, -48>>, <<4304, 4346, 1, 3008>>,
    <<4349, 4351, 1, 3008>>, <<5112, 5117, 1, -8>>, <<7296, 7296, 1, -6254>>,
    <<7297, 7297, 1, -6253>>, <<7298, 7298, 1, -6244>>,
    <<7299, 7300, 1, -6242>>, <<7301, 7301, 1, -6243>>,
    <<7302, 7302, 1, -6236>>, <<7303, 7303, 1, -6181>>,
    <<7304, 7304, 1, 35266>>, <<7545, 7545, 1, 35332>>,
    <<7549, 7549, 1, 3814>>, <<7566, 7566, 1, 35384>>, <<7681, 7829, 2, -1>>,
    <<7835, 7835, 1, -59>>, <<7841, 7935, 2, -1>>, <<7936, 7943, 1, 8>>,
    <<7952, 7957, 1, 8>>, <<7968, 7975, 1, 8>>, <<7984, 7991, 1, 8>>,
    <<8000, 8005, 1, 8>>, <<8017, 8023, 2, 8>>, <<8032, 8039, 1, 8>>,
    <<8048, 8049, 1, 74>>, <<8050, 8053, 1, 86>>, <<8054, 8055, 1, 100>>,
    <<8056, 8057, 1, 128>>, <<8058, 8059, 1, 112>>, <<8060, 8061, 1, 126>>,
    <<8112, 8113, 1, 8>>, <<8126, 8126, 1, -7205>>, <<8144, 8145, 1, 8>>,
    <<8160, 8161, 1, 8>>, <<8165, 8165, 1, 7>>, <<8526, 8526, 1, -28>>,
    <<8560, 8575, 1, -16>>, <<8580, 8580, 1, -1>>, <<9424, 9449, 1, -26>>,
    <<11312, 11359, 1, -48>>, <<11361, 11361, 1, -1>>,
    <<11365, 11365, 1, -10795>>, <<11366, 11366, 1, -10792>>,
    <<11368, 11372, 2, -1>>, <<11379, 11379, 1, -1>>,
    <<11382, 11382, 1, -1>>, <<11393, 11491, 2, -1>>,
    <<11500, 11502, 2, -1>>, <<11507, 11507, 1, -1>>,
    <<11520, 11557, 1, -7264>>, <<11559, 11559, 1, -7264>>,
    <<11565, 11565, 1, -7264>>, <<42561, 42605, 2, -1>>,
    <<42625, 42651, 2, -1>>, <<42787, 42799, 2, -1>>,
    <<42803, 42863, 2, -1>>, <<42874, 42876, 2, -1>>,
    <<42879, 42887, 2, -1>>, <<42892, 42892, 1, -1>>,
    <<42897, 42899, 2, -1>>, <<42900, 42900, 1, 48>>,
    <<42903, 42921, 2, -1>>, <<42933, 42947, 2, -1>>,
    <<42952, 42954, 2, -1>>, <<42961, 42961, 1, -1>>,
    <<42967, 42969, 2, -1>>, <<42998, 42998, 1, -1>>,
    <<43859, 43859, 1, -928>>, <<43888, 43967, 1, -38864>>,
    <<65345, 65370, 1, -32>>, <<66600, 66639, 1, -40>>,
    <<66776, 66811, 1, -40>>, <<66967, 67003, 2, -39>>,
    <<66968, 66976, 2, -39>>, <<66980, 66992, 2, -39>>,
    <<66996, 67000, 2, -39>>, <<67004, 67004, 1, -39>>,
    <<68800, 68850, 1, -64>>, <<71872, 71903, 1, -32>>,
    <<93792, 93823, 1, -32>>, <<125218, 125251, 1, -34>> }

\* str.upper outside ASCII, the code points whose upper-case form is more
\* than one character: U+00DF gives "SS", U+FB00 "FF", U+FB01 "FI", ...
UpperSpecial == {
    <<223, <<83, 83>>>>, <<329, <<700, 78>>>>, <<496, <<74, 780>>>>,
    <<912, <<921, 776, 769>>>>, <<944, <<933, 776, 769>>>>,
    <<1415, <<1333, 1362>>>>, <<7830, <<72, 817>>>>, <<7831, <<84, 776>>>>,
    <<7832, <<87, 778>>>>, <<7833, <<89, 778>>>>, <<7834, <<65, 702>>>>,
    <<8016, <<933, 787>>>>, <<8018, <<933, 787, 768>>>>,
    <<8020, <<933, 787, 769>>>>, <<8022, <<933, 787, 834>>>>,
    <<8064, <<7944, 921>>>>, <<8065, <<7945, 921>>>>,
    <<8066, <<7946, 921>>>>, <<8067, <<7947, 921>>>>,
    <<8068, <<7948, 921>>>>, <<8069, <<7949, 921>>>>,
    <<8070, <<7950, 921>>>>, <<8071, <<7951, 921>>>>,
    <<8072, <<7944, 921>>>>, <<8073, <<7945, 921>>>>,
    <<8074, <<7946, 921>>>>, <<8075, <<7947, 921>>>>,
    <<8076, <<7948, 921>>>>, <<8077, <<7949, 921>>>>,
    <<8078, <<7950, 921>>>>, <<8079, <<7951, 921>>>>,
    <<8080, <<7976, 921>>>>, <<8081, <<7977, 921>>>>,
    <<8082, <<7978, 921>>>>, <<8083, <<7979, 921>>>>,
    <<8084, <<7980, 921>>>>, <<8085, <<7981, 921>>>>,
    <<8086, <<7982, 921>>>>, <<8087, <<7983, 921>>>>,
    <<8088, <<7976, 921>>>>, <<8089, <<7977, 921>>>>,
    <<8090, <<7978, 921>>>>, <<8091, <<7979, 921>>>>,
    <<8092, <<7980, 921>>>>, <<8093, <<7981, 921>>>>,
    <<8094, <<7982, 921>>>>, <<8095, <<7983, 921>>>>,
    <<8096, <<8040, 921>>>>, <<8097, <<8041, 921>>>>,
    <<8098, <<8042, 921>>>>, <<8099, <<8043, 921>>>>,
    <<8100, <<8044, 921>>>>, <<8101, <<8045, 921>>>>,
    <<8102, <<8046, 921>>>>, <<8103, <<8047, 921>>>>,
    <<8104, <<8040, 921>>>>, <<8105, <<8041, 921>>>>,
    <<8106, <<8042, 921>>>>, <<8107, <<8043, 921>>>>,
    <<8108, <<8044, 921>>>>, <<8109, <<8045, 921>>>>,
    <<8110, <<8046, 921>>>>, <<8111, <<8047, 921>>>>,
    <<8114, <<8122, 921>>>>, <<8115, <<913, 921>>>>, <<8116, <<902, 921>>>>,
    <<8118, <<913, 834>>>>, <<8119, <<913, 834, 921>>>>,
    <<8124, <<913, 921>>>>, <<8130, <<8138, 921>>>>, <<8131, <<919, 921>>>>,
    <<8132, <<905, 921>>>>, <<8134, <<919, 834>>>>,
    <<8135, <<919, 834, 921>>>>, <<8140, <<919, 921>>>>,
    <<8146, <<921, 776, 768>>>>, <<8147, <<921, 776, 769>>>>,
    <<8150, <<921, 834>>>>, <<8151, <<921, 776, 834>>>>,
    <<8162, <<933, 776, 768>>>>, <<8163, <<933, 776, 769>>>>,
    <<8164, <<929, 787>>>>, <<8166, <<933, 834>>>>,
    <<8167, <<933, 776, 834>>>>, <<8178, <<8186, 921>>>>,
    <<8179, <<937, 921>>>>, <<8180, <<911, 921>>>>, <<8182, <<937, 834>>>>,
    <<8183, <<937, 834, 921>>>>, <<8188, <<937, 921>>>>,
    <<64256, <<70, 70>>>>, <<64257, <<70, 73>>>>, <<64258, <<70, 76>>>>,
    <<64259, <<70, 70, 73>>>>, <<64260, <<70, 70, 76>>>>,
    <<64261, <<83, 84>>>>, <<64262, <<83, 84>>>>, <<64275, <<1348, 1350>>>>,
    <<64276, <<1348, 1333>>>>, <<64277, <<1348, 1339>>>>,
    <<64278, <<1358, 1350>>>>, <<64279, <<1348, 1341>>>> }

\* str.upper on one character, which may give up to three: a-z, then the
\* case mappings outside ASCII, any other code point unchanged
UpperChar(ch) ==
    IF ch >= 97 /\ ch <= 122 THEN <<ch - 32>>
    ELSE IF ch < 128 THEN <<ch>>
    ELSE IF \E r \in UpperRanges :
               ch >= r[1] /\ ch <= r[2] /\ (ch - r[1]) % r[3] = 0
    THEN LET r == CHOOSE q \in UpperRanges :
                      ch >= q[1] /\ ch <= q[2] /\ (ch - q[1]) % q[3] = 0
         IN <<ch + r[4]>>
    ELSE IF \E q \in UpperSpecial : q[1] = ch
    THEN (CHOOSE q \in UpperSpecial : q[1] = ch)[2]
    ELSE <<ch>>

\* str.upper
RECURSIVE Upper(_)
Upper(s) == IF s = <<>> THEN <<>> ELSE UpperChar(Head(s)) \o Upper(Tail(s))

RECURSIVE LStrip(_)
LStrip(s) == IF s # <<>> /\ IsSpace(Head(s)) THEN LStrip(Tail(s)) ELSE s

RECURSIVE RStrip(_)
RStrip(s) ==
    IF s # <<>> /\ IsSpace(s[Len(s)]) THEN RStrip(SubSeq(s, 1, Len(s) - 1)) ELSE s

\* str.strip
Strip(s) == RStrip(LStrip(s))

-----------------------------------------------------------------------------
(* excel_col_to_index, lines 19-30 *)

Raised == [raised |-> TRUE, value |-> 0]
Returned(v) == [raised |-> FALSE, value |-> v]

\* the letter value without the + 1 of line 29
LetterValue_NoPlusOne(ch) == ch - OrdA

\* line 29: ord(ch) - ord('A') + 1
LetterValue(ch) == ch - OrdA + 1

\* line 27: 'A' <= ch <= 'Z'
IsColumnLetter(ch) == OrdA <= ch /\ ch <= OrdZ

\* the loop with line 30 returning total instead of total - 1
RECURSIVE ColLoop_OneBased(_, _, _)
ColLoop_OneBased(s, k, total) ==
    IF k > Len(s) THEN Returned(total)
    ELSE IF ~IsColumnLetter(s[k]) THEN Raised
    ELSE ColLoop_OneBased(s, k + 1, total * 26 + LetterValue(s[k]))

\* lines 26-30: the loop over the characters, from character k with the
\* running total, and the return of line 30
RECURSIVE ColLoop(_, _, _)
ColLoop(s, k, total) ==
    IF k > Len(s) THEN Returned(total - 1)
    ELSE IF ~IsColumnLetter(s[k]) THEN Raised
    ELSE ColLoop(s, k + 1, total * 26 + LetterValue(s[k]))

excel_col_to_index(s) == ColLoop(Upper(Strip(s)), 1, 0)

-----------------------------------------------------------------------------
(* Values of the /analyze handler *)

\* an openpyxl cell value: None or text
None == [present |-> FALSE, text |-> <<>>]
Text(s) == [present |-> TRUE, text |-> s]

\* a DataFrame element under dtype=str: NaN or a str
NaN == [isna |-> TRUE, text |-> <<>>]
Str(s) == [isna |-> FALSE, text |-> s]

\* request.files without "file", bytes openpyxl cannot load, a workbook
NoFile == [kind |-> "missing", rows |-> <<>>]
Corrupt == [kind |-> "corrupt", rows |-> <<>>]
Workbook(rows) == [kind |-> "xlsx", rows |-> rows]

NoFrame == [read |-> FALSE, columns |-> <<>>, rows |-> <<>>]
NoResult == [created |-> FALSE, keys |-> <<>>, val |-> <<>>]
NoResponse == [status |-> 0, error |-> "", body |-> NoResult]

-----------------------------------------------------------------------------
(* Parsing the columns string, lines 56-57 and 81-82 *)

\* the character class [,\s;]
IsSep(ch) == ch = 44 \/ ch = 59 \/ IsSpace(ch)

\* re.split(r"[,\s;]+", s): the pieces between the maximal runs of
\* separators; a run at either end leaves an empty piece there
RECURSIVE SplitFrom(_, _, _, _)
SplitFrom(s, k, cur, acc) ==
    IF k > Len(s) THEN Append(acc, cur)
    ELSE IF IsSep(s[k])
         THEN IF k > 1 /\ IsSep(s[k - 1])
              THEN SplitFrom(s, k + 1, cur, acc)
              ELSE SplitFrom(s, k + 1, <<>>, Append(acc, cur))
         ELSE SplitFrom(s, k + 1, Append(cur, s[k]), acc)

re_split(s) == SplitFrom(s, 1, <<>>, <<>>)

NonEmptyToken(c) == c # <<>>

\* the variant of line 82 that keeps the empty pieces
KeyLetters_KeepEmpty(raw) == re_split(Strip(raw))

\* lines 81-82: [c for c in re.split(...) if c]
KeyLetters(raw) == SelectSeq(re_split(Strip(raw)), NonEmptyToken)

\* lines 56-57: [c.strip().upper() for c in re.split(...) if c]
UpperLetterTokens(raw) ==
    LET kept == SelectSeq(re_split(Strip(raw)), NonEmptyToken)
    IN [k \in 1..Len(kept) |-> Upper(Strip(kept[k]))]

\* ",".join(tokens)
RECURSIVE Join(_)
Join(tokens) ==
    IF tokens = <<>> THEN <<>>
    ELSE IF Len(tokens) = 1 THEN tokens[1]
    ELSE tokens[1] \o <<44>> \o Join(Tail(tokens))

\* lines 61-65
usecols_str(tokens) == IF Len(tokens) = 1 THEN tokens[1] ELSE Join(tokens)

-----------------------------------------------------------------------------
(* pandas.read_excel(file, header=None, dtype=str, usecols=..., lines 67-73) *)

\* str.split(sep) for a one-character sep: one cut per occurrence, empty
\* pieces kept
RECURSIVE SplitAtFrom(_, _, _, _, _)
SplitAtFrom(s, sep, k, cur, acc) ==
    IF k > Len(s) THEN Append(acc, cur)
    ELSE IF s[k] = sep THEN SplitAtFrom(s, sep, k + 1, <<>>, Append(acc, cur))
    ELSE SplitAtFrom(s, sep, k + 1, Append(cur, s[k]), acc)

str_split(s, sep) == SplitAtFrom(s, sep, 1, <<>>, <<>>)

\* pandas _excel2num: the base-26 value of x.upper().strip() minus one,
\* ValueError on a character outside A-Z; the empty string gives -1
RECURSIVE Excel2NumFrom(_, _, _)
Excel2NumFrom(s, k, index) ==
    IF k > Len(s) THEN Returned(index - 1)
    ELSE IF s[k] < 65 \/ s[k] > 90 THEN Raised
    ELSE Excel2NumFrom(s, k + 1, index * 26 + s[k] - 65 + 1)

excel2num(x) == Excel2NumFrom(Strip(Upper(x)), 1, 0)

\* one comma-separated piece of pandas _range2cols: "A:C" is the range of
\* the indices of its first two ':'-separated parts, both ends included;
\* any other piece is one index. read_excel keeps the indices as a set.
PieceCols(rng) ==
    IF \E k \in 1..Len(rng) : rng[k] = 58
    THEN LET rngs == str_split(rng, 58)
             lo == excel2num(rngs[1])
             hi == excel2num(rngs[2])
         IN IF lo.raised \/ hi.raised THEN [raised |-> TRUE, cols |-> {}]
            ELSE [raised |-> FALSE, cols |-> lo.value..hi.value]
    ELSE LET n == excel2num(rng)
         IN IF n.raised THEN [raised |-> TRUE, cols |-> {}]
            ELSE [raised |-> FALSE, cols |-> {n.value}]

\* pandas _range2cols: the indices of the pieces of areas.split(","), or a
\* ValueError when a piece holds a character outside A-Z
range2cols(areas) ==
    LET pieces == str_split(areas, 44)
        parts == [k \in 1..Len(pieces) |-> PieceCols(pieces[k])]
    IN IF \E k \in 1..Len(parts) : parts[k].raised
       THEN [raised |-> TRUE, cols |-> {}]
       ELSE [raised |-> FALSE,
             cols |-> UNION {parts[k].cols : k \in 1..Len(parts)}]

\* the width openpyxl reports: trailing empty cells of a row do not count
RECURSIVE TrimmedLen(_)
TrimmedLen(row) ==
    IF row # <<>> /\ ~row[Len(row)].present
    THEN TrimmedLen(SubSeq(row, 1, Len(row) - 1))
    ELSE Len(row)

RECURSIVE MaxWidth(_)
MaxWidth(rows) ==
    IF rows = <<>> THEN 0
    ELSE LET w == TrimmedLen(Head(rows))
             r == MaxWidth(Tail(rows))
         IN IF w > r THEN w ELSE r

\* the strings pandas reads as NaN by default (openpyxl's None arrives as
\* ""): "", "#N/A", "#N/A N/A", "#NA", "-1.#IND", "-1.#QNAN", "-NaN",
\* "-nan", "1.#IND", "1.#QNAN", "<NA>", "N/A", "NA", "NULL", "NaN", "None",
\* "n/a", "nan", "null"
NAValues ==
    { <<>>,
      <<35, 78, 47, 65>>,
      <<35, 78, 47, 65, 32, 78, 47, 65>>,
      <<35, 78, 65>>,
      <<45, 49, 46, 35, 73, 78, 68>>,
      <<45, 49, 46, 35, 81, 78, 65, 78>>,
      <<45, 78, 97, 78>>,
      <<45, 110, 97, 110>>,
      <<49, 46, 35, 73, 78, 68>>,
      <<49, 46, 35, 81, 78, 65, 78>>,
      <<60, 78, 65, 62>>,
      <<78, 47, 65>>,
      <<78, 65>>,
      <<78, 85, 76, 76>>,
      <<78, 97, 78>>,
      <<78, 111, 110, 101>>,
      <<110, 47, 97>>,
      <<110, 97, 110>>,
      <<110, 117, 108, 108>> }

IsNAText(s) == s \in NAValues

\* the rows without the trailing rows that hold no value
RECURSIVE TrimRows(_)
TrimRows(rows) ==
    IF rows # <<>> /\ TrimmedLen(rows[Len(rows)]) = 0
    THEN TrimRows(SubSeq(rows, 1, Len(rows) - 1))
    ELSE rows

\* one cell as it arrives in the frame under dtype=str
FrameCell(cell) ==
    IF ~cell.present \/ IsNAText(cell.text) THEN NaN ELSE Str(cell.text)

\* the increasing sequence of the members of a finite set of integers
RECURSIVE SortedSeq(_)
SortedSeq(S) ==
    IF S = {} THEN <<>>
    ELSE LET m == CHOOSE x \in S : \A y \in S : x <= y
         IN <<m>> \o SortedSeq(S \ {m})

\* read_excel as if loading the workbook could not raise: only the usecols
\* string makes it fail
ReadExcelFails_ColumnsOnly(f, areas, strict, emptyOk) ==
    LET req == range2cols(areas)
        width == MaxWidth(f.rows)
    IN \/ req.raised
       \/ strict /\ \E c \in req.cols : c >= width

\* the outcomes of read_excel. A usecols piece that is no column name, or a
\* file that is no workbook, raises. A column index at or beyond the sheet's
\* width raises in pandas >= 2.0 (strict) and is ignored by older versions.
\* The columns kept are the distinct requested positions in sheet order,
\* whatever the order and multiplicity of the request. A selection that
\* keeps no column is left open: an empty frame (emptyOk) or an exception.
\* lines 67-77: read_excel raises and the handler returns the 400
ReadExcelFails(f, areas, strict, emptyOk) ==
    LET req == range2cols(areas)
        width == MaxWidth(f.rows)
    IN \/ f.kind # "xlsx"
       \/ req.raised
       \/ strict /\ \E c \in req.cols : c >= width
       \/ ~emptyOk /\ \A c \in req.cols : c < 0 \/ c >= width

\* lines 67-73: the frame read_excel returns: the rows up to the last one
\* that holds a value, the kept columns in sheet order
ReadExcelFrame(f, areas) ==
    LET req == range2cols(areas)
        rows == TrimRows(f.rows)
        width == MaxWidth(rows)
        kept == SortedSeq({c \in 0..(width - 1) : c \in req.cols})
    IN [read |-> TRUE,
        columns |-> kept,
        rows |-> [r \in 1..Len(rows) |->
                    [k \in 1..Len(kept) |-> FrameCell(rows[r][kept[k] + 1])]]]

-----------------------------------------------------------------------------
(* The per-label loop, lines 86-96 *)

\* result[key] = value on a dict that keeps insertion order
DictSet(d, key, value) ==
    [created |-> TRUE,
     keys |-> IF \E k \in 1..Len(d.keys) : d.keys[k] = key
              THEN d.keys ELSE Append(d.keys, key),
     val |-> [x \in DOMAIN d.val \cup {key} |->
                IF x = key THEN value ELSE d.val[x]]]

\* line 90: {"_error": f"Column {letter} not found after reading"}
ErrorMarker(letter) ==
    [is_error |-> TRUE, table |-> <<>>, not_found |-> letter]
Histogram(table) ==
    [is_error |-> FALSE, table |-> table, not_found |-> <<>>]

\* line 94: df.iloc[1:, c], position c (0-based) of every row but the first
iloc_from_1(frame, c) ==
    [r \in 1..(Len(frame.rows) - 1) |-> frame.rows[r + 1][c + 1]]

NotNa(x) == ~x.isna

\* line 95: .dropna().map(lambda x: str(x).strip())
dropna_strip(series) ==
    LET kept == SelectSeq(series, NotNa)
    IN [k \in 1..Len(kept) |-> Strip(kept[k].text)]

\* line 96: .value_counts().to_dict()
RECURSIVE CountFrom(_, _, _)
CountFrom(values, k, acc) ==
    IF k > Len(values) THEN acc
    ELSE LET v == values[k]
         IN CountFrom(values, k + 1,
                IF v \in DOMAIN acc THEN [acc EXCEPT ![v] = @ + 1]
                ELSE [x \in DOMAIN acc \cup {v} |->
                        IF x = v THEN 1 ELSE acc[x]])

value_counts(values) == CountFrom(values, 1, <<>>)

\* lines 94-96 for the frame column at position c
ColumnHistogram(frame, c) ==
    Histogram(value_counts(dropna_strip(iloc_from_1(frame, c))))

\* lines 89-96: one iteration of the loop, for col_letters[k + 1]
LoopBody(res, frame, letters, k) ==
    IF k >= Len(frame.columns)
    THEN DictSet(res, letters[k + 1], ErrorMarker(letters[k + 1]))
    ELSE DictSet(res, letters[k + 1], ColumnHistogram(frame, k))

\* s before t in the order of Python's str comparison
LexLess(s, t) ==
    \/ /\ Len(s) < Len(t)
       /\ \A k \in 1..Len(s) : s[k] = t[k]
    \/ \E k \in 1..Len(s) :
         /\ k <= Len(t)
         /\ s[k] < t[k]
         /\ \A j \in 1..(k - 1) : s[j] = t[j]

\* the keys in increasing order
RECURSIVE SortKeys(_)
SortKeys(S) ==
    IF S = {} THEN <<>>
    ELSE LET m == CHOOSE x \in S : \A y \in S \ {x} : LexLess(x, y)
         IN <<m>> \o SortKeys(S \ {m})

\* line 98: jsonify(result), which writes the keys of the object in sorted
\* order (Flask's default sort_keys)
jsonify(res) ==
    [created |-> TRUE,
     keys |-> SortKeys({res.keys[k] : k \in 1..Len(res.keys)}),
     val |-> res.val]

\* line 84
EmptyResult == [created |-> TRUE, keys |-> <<>>, val |-> <<>>]

-----------------------------------------------------------------------------
(* Requests *)

\* A B C b 1 ! : and the separators , ; space U+00A0
SpecAlphabet == {65, 66, 67, 98, 49, 33, 58, 44, 59, 32, 160}

\* "F, G,H ;I"   "B, A"   "A, B"   "A, ZZ"   "ZZ, A"   "1A, B"   "F!, A"
\* "B, B"   "B"   U+FB00 (upper-cased to "FF")   U+FB01 ";" U+FB03
ExampleSpecs ==
    { <<70, 44, 32, 71, 44, 72, 32, 59, 73>>,
      <<66, 44, 32, 65>>, <<65, 44, 32, 66>>,
      <<65, 44, 32, 90, 90>>, <<90, 90, 44, 32, 65>>,
      <<49, 65, 44, 32, 66>>, <<70, 33, 44, 32, 65>>,
      <<66, 44, 32, 66>>, <<66>>, <<64256>>, <<64257, 59, 64259>> }

\* the header row "id", "cat"
HeaderRow == <<Text(<<105, 100>>), Text(<<99, 97, 116>>)>>

\* rows ("1","a") ("2","b") ("3","a") ("4"," a ") ("5",None)
ExampleSheet ==
    Workbook(<< HeaderRow,
                <<Text(<<49>>), Text(<<97>>)>>,
                <<Text(<<50>>), Text(<<98>>)>>,
                <<Text(<<51>>), Text(<<97>>)>>,
                <<Text(<<52>>), Text(<<32, 97, 32>>)>>,
                <<Text(<<53>>), None>> >>)

\* rows (" ","A") ("NA","a b") ("a","a") ("null", U+00A0 "a" U+001F)
\* (None, None)
MixedSheet ==
    Workbook(<< HeaderRow,
                <<Text(<<32>>), Text(<<65>>)>>,
                <<Text(<<78, 65>>), Text(<<97, 32, 98>>)>>,
                <<Text(<<97>>), Text(<<97>>)>>,
                <<Text(<<110, 117, 108, 108>>), Text(<<160, 97, 31>>)>>,
                <<None, None>> >>)

\* nine columns A..I: a header row and one data row "a" "b" ... "i"
WideSheet ==
    Workbook(<< [k \in 1..9 |-> Text(<<72, 48 + k>>)],
                [k \in 1..9 |-> Text(<<96 + k>>)] >>)

\* None, "a", " a ", " "
CellValues == {None, Text(<<97>>), Text(<<32, 97, 32>>), Text(<<32>>)}

\* every two-column sheet of at most MaxRows data rows over CellValues
\* (every sheet here has a full header row and at least two columns, so its
\* width is the header's and no row is skipped as a blank line)
EnumSheets ==
    { Workbook(<<HeaderRow>> \o body) :
        body \in UNION {[1..n -> [1..2 -> CellValues]] : n \in 0..MaxRows} }

Requests ==
    ((StringsUpTo(SpecAlphabet, MaxSpecLen) \cup ExampleSpecs)
        \X {NoFile, Corrupt, ExampleSheet, MixedSheet, WideSheet})
    \cup (ExampleSpecs \X EnumSheets)

Init ==
    /\ pc = "start"
    /\ \E rq \in Requests : columns_raw = rq[1] /\ file = rq[2]
    /\ col_letter = <<>> /\ ret = "none" /\ seen = <<>>
    /\ col_letters = <<>>
    /\ df = NoFrame
    /\ result = NoResult
    /\ i = 0
    /\ response = NoResponse

UnchangedIndex == UNCHANGED <<col_letter, ret, seen>>

\* lines 45-46
NoFileUploaded ==
    /\ pc = "start"
    /\ file = NoFile
    /\ response' = [status |-> 400, error |-> "No file uploaded", body |-> NoResult]
    /\ pc' = "done"
    /\ UNCHANGED <<file, columns_raw, col_letters, df, result, i>>
    /\ UnchangedIndex

\* lines 48-77 when read_excel raises (the outcome is computed as a value)
ReadFailed ==
    /\ pc = "start"
    /\ file # NoFile
    /\ \E strict \in BOOLEAN, emptyOk \in BOOLEAN :
         ReadExcelFails(file, usecols_str(UpperLetterTokens(columns_raw)),
                        strict, emptyOk) = TRUE
    /\ response' = [status |-> 400, error |-> "Failed to read Excel", body |-> NoResult]
    /\ pc' = "done"
    /\ UNCHANGED <<file, columns_raw, col_letters, df, result, i>>
    /\ UnchangedIndex

\* lines 48-84 when read_excel returns
ReadDone ==
    /\ pc = "start"
    /\ file # NoFile
    /\ \E strict \in BOOLEAN, emptyOk \in BOOLEAN :
         ~ReadExcelFails(file, usecols_str(UpperLetterTokens(columns_raw)),
                         strict, emptyOk)
    /\ df' = ReadExcelFrame(file, usecols_str(UpperLetterTokens(columns_raw)))
    /\ col_letters' = KeyLetters(columns_raw)
    /\ result' = EmptyResult
    /\ i' = 0
    /\ pc' = "loop"
    /\ UNCHANGED <<file, columns_raw, response>>
    /\ UnchangedIndex

\* lines 86-91: no loaded column at position i
ColumnNotFound ==
    /\ pc = "loop"
    /\ i < Len(col_letters)
    /\ i >= Len(df.columns)
    /\ result' = LoopBody(result, df, col_letters, i)
    /\ i' = i + 1
    /\ UNCHANGED <<pc, file, columns_raw, col_letters, df, response>>
    /\ UnchangedIndex

\* lines 86-96: the histogram of the loaded column at position i
CountColumn ==
    /\ pc = "loop"
    /\ i < Len(col_letters)
    /\ i < Len(df.columns)
    /\ result' = LoopBody(result, df, col_letters, i)
    /\ i' = i + 1
    /\ UNCHANGED <<pc, file, columns_raw, col_letters, df, response>>
    /\ UnchangedIndex

\* line 98
ReturnResult ==
    /\ pc = "loop"
    /\ i = Len(col_letters)
    /\ response' = [status |-> 200, error |-> "", body |-> jsonify(result)]
    /\ pc' = "done"
    /\ UNCHANGED <<file, columns_raw, col_letters, df, result, i>>
    /\ UnchangedIndex

Next ==
    \/ NoFileUploaded
    \/ ReadFailed
    \/ ReadDone
    \/ ColumnNotFound
    \/ CountColumn
    \/ ReturnResult

Spec == Init /\ [][Next]_vars

-----------------------------------------------------------------------------
(* Inputs of excel_col_to_index *)

\* upper-case letters, some lower-case letters (a, b, z, U+00DF, U+00E9,
\* U+0131, U+01F0 whose upper-case form is "J" and a combining caron, the
\* ligature U+FB00), digits, punctuation (including the neighbours of 'A'
\* and 'Z' in ASCII), the space and U+001C
UpperLetters == OrdA..OrdZ
IndexAlphabet == UpperLetters \cup {97, 98, 122, 223, 233, 305, 496, 64256}
                     \cup {48, 49, 57} \cup {33, 64, 91, 96} \cup {32, 28}

IndexInputs == StringsUpTo(IndexAlphabet, MaxLen)

\* the variables of analyze while no request is handled
Idle ==
    /\ file = NoFile /\ columns_raw = <<>> /\ col_letters = <<>>
    /\ df = NoFrame /\ result = NoResult /\ i = 0
    /\ response = NoResponse

UnchangedAnalyze ==
    UNCHANGED <<file, columns_raw, col_letters, df, result, i, response>>

InitIndex ==
    /\ pc = "call"
    /\ col_letter \in IndexInputs
    /\ ret = "none"
    /\ seen = <<>>
    /\ Idle

\* one call of excel_col_to_index(col_letter)
CallIndex ==
    /\ pc = "call"
    /\ ret' = excel_col_to_index(col_letter)
    /\ pc' = "returned"
    /\ UNCHANGED <<col_letter, seen>>
    /\ UnchangedAnalyze

NextIndex == CallIndex

SpecIndex == InitIndex /\ [][NextIndex]_vars

-----------------------------------------------------------------------------
(* The labels in their natural ordering: A < B < ... < Z < AA < AB < ... *)

\* the label after s: the last letter advances, Z wraps to A with a carry
RECURSIVE Succ(_)
Succ(s) ==
    IF s = <<>> THEN <<OrdA>>
    ELSE IF s[Len(s)] < OrdZ THEN [s EXCEPT ![Len(s)] = @ + 1]
    ELSE Append(Succ(SubSeq(s, 1, Len(s) - 1)), OrdA)

\* shorter first, then alphabetical
Precedes(s, t) ==
    \/ Len(s) < Len(t)
    \/ /\ Len(s) = Len(t)
       /\ \E k \in 1..Len(s) :
            /\ s[k] < t[k]
            /\ \A j \in 1..(k - 1) : s[j] = t[j]

InitOrder ==
    /\ pc = "walk"
    /\ col_letter = <<>>
    /\ ret = "none"
    /\ seen = <<>>
    /\ Idle

\* converts the next label of the natural ordering and records its index
CallNextLabel ==
    /\ pc = "walk"
    /\ Cardinality(DOMAIN seen) <= MaxIndex
    /\ col_letter' = Succ(col_letter)
    /\ ret' = excel_col_to_index(col_letter')
    /\ seen' = seen @@ (col_letter' :> ret')
    /\ UNCHANGED pc
    /\ UnchangedAnalyze

NextOrder == CallNextLabel

SpecOrder == InitOrder /\ [][NextOrder]_vars

-----------------------------------------------------------------------------
(* Properties of excel_col_to_index *)

RECURSIVE Pow26(_)
Pow26(n) == IF n = 0 THEN 1 ELSE 26 * Pow26(n - 1)

RECURSIVE SumTo(_, _)
\* f[1] + ... + f[n]
SumTo(f, n) == IF n = 0 THEN 0 ELSE f[n] + SumTo(f, n - 1)

\* the positional formula over the case-folded label c_1 .. c_n: the sum
\* of value(c_k) * 26^(n-k), minus 1, with value('A') = 1 .. value('Z') = 26
RefIndex(s) ==
    LET folded == Upper(s)
        n == Len(folded)
        term == [k \in 1..n |-> (folded[k] - 64) * Pow26(n - k)]
    IN SumTo(term, n) - 1

RefValid(s) == \A k \in 1..Len(Upper(s)) : Upper(s)[k] \in UpperLetters

NoWhitespace(s) == \A k \in 1..Len(s) : ~IsSpace(s[k])

\* C6: for every string of letters, digits and punctuation, the call returns
\* the positional base-26 value minus one when every character case-folds
\* into 'A'..'Z' and raises ValueError otherwise; A, Z, AA, AZ, BA give
\* 0, 25, 26, 51, 52 and a lower-case label gives the index of its
\* upper-case form.
C6_IndexIsPositionalFormula ==
    (pc = "returned" /\ NoWhitespace(col_letter)) =>
        /\ IF RefValid(col_letter)
           THEN ret = Returned(RefIndex(col_letter))
           ELSE ret = Raised
        /\ col_letter = <<65>> => ret = Returned(0)
        /\ col_letter = <<90>> => ret = Returned(25)
        /\ col_letter = <<65, 65>> => ret = Returned(26)
        /\ col_letter = <<65, 90>> => ret = Returned(51)
        /\ col_letter = <<66, 65>> => ret = Returned(52)
        /\ RefValid(col_letter) => ret = excel_col_to_index(Upper(col_letter))
        /\ col_letter = <<223>> => ret = Returned(512)
        /\ col_letter = <<305>> => ret = Returned(8)
        /\ col_letter = <<64256>> => ret = Returned(161)
        /\ col_letter = <<496>> => ret = Raised

\* the call on the two-letter lower-case label "ba" returned 52
C6_Witness ==
    pc = "returned" /\ col_letter = <<98, 97>> /\ ret = Returned(52)

\* C7: over the labels converted so far (the first labels of the natural
\* ordering) every index is a non-negative integer, a label that precedes
\* another has the smaller index, every integer below the number of labels
\* is the index of a label, and no two labels share an index.
C7_OrderPreservingBijection ==
    (pc = "walk" /\ seen # <<>>) =>
        LET labels == DOMAIN seen
            n == Cardinality(labels)
            cur == seen[col_letter]
        IN /\ \A s \in labels : ~seen[s].raised /\ seen[s].value >= 0
           /\ \A s \in labels :
                /\ Precedes(s, col_letter) => seen[s].value < cur.value
                /\ Precedes(col_letter, s) => cur.value < seen[s].value
                /\ seen[s].value = cur.value => s = col_letter
           /\ {seen[s].value : s \in labels} = 0..(n - 1)

\* the walk reached the first three-letter label, AAA, with index 702
C7_Witness ==
    /\ pc = "walk" /\ col_letter = <<65, 65, 65>>
    /\ seen[col_letter] = Returned(702)
    /\ seen[<<90, 90>>] = Returned(701)

-----------------------------------------------------------------------------
(* Properties of analyze *)

Elems(s) == {s[k] : k \in 1..Len(s)}

Finished == pc = "done"
Succeeded == pc = "done" /\ response.status = 200

\* index(label) of the specification, by excel_col_to_index
LabelValid(letter) == ~excel_col_to_index(letter).raised
LabelIndex(letter) == excel_col_to_index(letter).value
LabelInRange(f, letter) ==
    /\ LabelValid(letter)
    /\ LabelIndex(letter) >= 0
    /\ LabelIndex(letter) < MaxWidth(f.rows)

\* the loop run to its end on a frame
RECURSIVE RunLoop(_, _, _, _)
RunLoop(res, frame, letters, k) ==
    IF k >= Len(letters) THEN res
    ELSE RunLoop(LoopBody(res, frame, letters, k), frame, letters, k + 1)

\* the result of a request for the given letters whose read succeeds
ResultOf(f, letters) ==
    RunLoop(EmptyResult,
            ReadExcelFrame(f, usecols_str([k \in 1..Len(letters) |->
                                              Upper(Strip(letters[k]))])),
            letters, 0)

\* the histogram the handler gives a column requested alone
AloneHistogram(f, letter) == ResultOf(f, <<letter>>).val[letter]

\* the cells of sheet column c (0-based) in the data rows, row 0 excluded
DataCells(f, c) == [r \in 1..(Len(f.rows) - 1) |-> f.rows[r + 1][c + 1]]

\* value -> number of data rows whose cell is non-null and strips to value
ExactCounts(f, c) ==
    LET cells == DataCells(f, c)
        rowsOf(s) == {r \in 1..Len(cells) :
                        cells[r].present /\ Strip(cells[r].text) = s}
        values == {Strip(cells[r].text) :
                     r \in {q \in 1..Len(cells) : cells[q].present}}
    IN [s \in values |-> Cardinality(rowsOf(s))]

\* C1: in a returned result, the histogram under every label (a token of
\* letters) is the histogram of the sheet column at position index(label),
\* whatever the number and order of the labels requested.
C1_HistogramFromNamedColumn ==
    Succeeded =>
        \A letter \in Elems(response.body.keys) :
            (LabelValid(letter) /\ ~response.body.val[letter].is_error) =>
                /\ LabelInRange(file, letter)
                /\ response.body.val[letter] = AloneHistogram(file, letter)

\* C2: in a returned result, the table under every in-range label maps each
\* key to the number of data rows (row 0 excluded) whose cell in that
\* label's column is non-null and strips to the key, every count is at
\* least 1, and "B" on the example sheet gives {"a": 3, "b": 1}.
C2_ExactCounts ==
    Succeeded =>
        /\ \A letter \in Elems(response.body.keys) :
             LabelInRange(file, letter) =>
                /\ ~response.body.val[letter].is_error
                /\ response.body.val[letter].table =
                        ExactCounts(file, LabelIndex(letter))
                /\ \A s \in DOMAIN response.body.val[letter].table :
                        response.body.val[letter].table[s] >= 1
        /\ (file = ExampleSheet /\ columns_raw = <<66>>) =>
                response.body.val[<<66>>].table = (<<97>> :> 3) @@ (<<98>> :> 1)

\* C3: no frequency table of a returned result has the empty string as a
\* key.
C3_NoEmptyKey ==
    Succeeded =>
        \A letter \in Elems(response.body.keys) :
            <<>> \notin DOMAIN response.body.val[letter].table

\* C4: a request of several valid labels, one of them beyond the sheet's
\* width, succeeds; each label beyond the width holds an error marker and
\* every in-range label holds what it holds when only the in-range labels
\* are requested.
C4_OutOfRangeLabelIsolated ==
    LET letters == KeyLetters(columns_raw)
        inRange(letter) == LabelInRange(file, letter)
        good == SelectSeq(letters, inRange)
    IN (/\ Finished
        /\ file.kind = "xlsx"
        /\ Len(letters) >= 2
        /\ \A k \in 1..Len(letters) : LabelValid(letters[k])
        /\ \E k \in 1..Len(letters) : ~inRange(letters[k]))
       => /\ response.status = 200
          /\ \A k \in 1..Len(letters) :
                ~inRange(letters[k]) => response.body.val[letters[k]].is_error
          /\ \A k \in 1..Len(good) :
                response.body.val[good[k]] = ResultOf(file, good).val[good[k]]

\* C5: a request of several labels, one of them with a character outside
\* A-Z after case-folding, succeeds; each such label holds an error marker
\* and every valid in-range label holds what it holds when only the valid
\* in-range labels are requested.
C5_InvalidLabelIsolated ==
    LET letters == KeyLetters(columns_raw)
        inRange(letter) == LabelInRange(file, letter)
        good == SelectSeq(letters, inRange)
    IN (/\ Finished
        /\ file.kind = "xlsx"
        /\ Len(letters) >= 2
        /\ \E k \in 1..Len(letters) : ~LabelValid(letters[k]))
       => /\ response.status = 200
          /\ \A k \in 1..Len(letters) :
                ~LabelValid(letters[k]) => response.body.val[letters[k]].is_error
          /\ \A k \in 1..Len(good) :
                response.body.val[good[k]] = ResultOf(file, good).val[good[k]]

\* C8: for bytes that are no workbook the call ends in the file-read
\* failure and nothing else: the loop is never entered, no frame is read,
\* no result dict is created and the response carries no result.
C8_UnreadableFileFailsWhole ==
    file.kind = "corrupt" =>
        /\ pc \in {"start", "done"}
        /\ ~df.read
        /\ ~result.created /\ result.keys = <<>>
        /\ i = 0
        /\ Finished =>
             /\ response.status = 400
             /\ response.error = "Failed to read Excel"
             /\ ~response.body.created
             /\ response.body.keys = <<>>

\* the call on unreadable bytes with the labels "B, A" ended in the failure
C8_Witness ==
    /\ Finished
    /\ file = Corrupt
    /\ columns_raw = <<66, 44, 32, 65>>
    /\ response.status = 400

\* the maximal runs of characters that are no separator, in order
RefTokens(s) ==
    LET starts == {k \in 1..Len(s) :
                     ~IsSep(s[k]) /\ (k = 1 \/ IsSep(s[k - 1]))}
        endOf(k) == CHOOSE e \in k..Len(s) :
                      /\ \A j \in k..e : ~IsSep(s[j])
                      /\ (e = Len(s) \/ IsSep(s[e + 1]))
        ordered == SortedSeq(starts)
    IN [n \in 1..Len(ordered) |-> SubSeq(s, ordered[n], endOf(ordered[n]))]

\* the sequence without the later repetitions of its elements
RECURSIVE Distinct(_)
Distinct(s) ==
    IF s = <<>> THEN <<>>
    ELSE LET front == Distinct(SubSeq(s, 1, Len(s) - 1))
         IN IF s[Len(s)] \in Elems(front) THEN front
            ELSE Append(front, s[Len(s)])

\* C9: the labels the loop runs over are the non-empty tokens between the
\* runs of commas, semicolons and whitespace, in the caller's order and
\* text; the keys of the result dict are those tokens in that order (a
\* repeated token keeps its first place), during the loop and when the
\* handler returns; no key is the empty string; the body returned holds
\* exactly these keys; and "F, G,H ;I" gives F, G, H, I.
C9_TokensAreKeys ==
    /\ result.created =>
         /\ col_letters = RefTokens(columns_raw)
         /\ \A k \in 1..Len(col_letters) : col_letters[k] # <<>>
         /\ result.keys = Distinct(SubSeq(col_letters, 1, i))
         /\ DOMAIN result.val = Elems(result.keys)
         /\ columns_raw = <<70, 44, 32, 71, 44, 72, 32, 59, 73>> =>
                col_letters = << <<70>>, <<71>>, <<72>>, <<73>> >>
    /\ Succeeded =>
         /\ result.keys = Distinct(RefTokens(columns_raw))
         /\ Elems(response.body.keys) = Elems(RefTokens(columns_raw))
         /\ DOMAIN response.body.val = Elems(RefTokens(columns_raw))
         /\ <<>> \notin Elems(response.body.keys)

\* "F, G,H ;I" on the nine-column sheet returned with the keys F, G, H, I
C9_Witness ==
    /\ Succeeded
    /\ columns_raw = <<70, 44, 32, 71, 44, 72, 32, 59, 73>>
    /\ result.keys = << <<70>>, <<71>>, <<72>>, <<73>> >>
    /\ ~response.body.val[<<73>>].is_error

\* C10: when a valid in-range label is requested more than once, the entry
\* under it in the returned result is the column's histogram and not an
\* error marker.
C10_RepeatedLabelKeepsHistogram ==
    LET letters == KeyLetters(columns_raw)
    IN Succeeded =>
        \A k \in 1..Len(letters) :
            (/\ LabelInRange(file, letters[k])
             /\ \E j \in 1..Len(letters) : j # k /\ letters[j] = letters[k])
            => /\ ~response.body.val[letters[k]].is_error
               /\ response.body.val[letters[k]] = AloneHistogram(file, letters[k])

====
